---------------------------- MODULE Spec2Model ----------------------------
(***************************************************************************)
(* The fixed-record chat store of tmdgusya/relay (store.go) and the UI     *)
(* glue that drives it.                                                    *)
(*                                                                         *)
(* Byte strings (the database file, Go byte slices and arrays, transcript  *)
(* text) are kept run-length encoded: a sequence of runs <<end, b>>, the   *)
(* bytes from the end of the previous run up to offset end being b, no two *)
(* neighbouring runs with the same b.  The encoding is canonical: two byte *)
(* strings are equal iff their run lists are equal.                        *)
(* uint32 values are kept as two 16-bit limbs <<hi, lo>> so that the       *)
(* arithmetic of the source wraps modulo 2^32 exactly as it does in Go.    *)
(***************************************************************************)
EXTENDS Integers, Sequences, FiniteSets, Bags, TLC

\* ------------------------------------------------------------------------
\* Program constants (store.go, const block)
\* ------------------------------------------------------------------------
MAXIMUM_MESSAGE_SIZE == 4096

HEADER_SIZE == 16

CONTENT_SIZE == 22 + MAXIMUM_MESSAGE_SIZE

\* make(chan string, 10) in initialModel
PIPE_CAP == 10

\* one 16-bit limb of a uint32, and the modulus of a uint16
LIMB == 256 * 256

\* ------------------------------------------------------------------------
\* Byte strings, run-length encoded
\* ------------------------------------------------------------------------
Min(a, b) == IF a < b THEN a ELSE b

\* Each operator below binds its arguments once (v \in { arg }) before it
\* uses them, so that an argument expression is evaluated a single time.

\* n zero bytes: what make([]byte, n) and a zero-valued array hold
RZeros(n) == IF n <= 0 THEN << >> ELSE << <<n, 0>> >>

\* len(b)
RLen(r0) ==
    CHOOSE n \in { IF r = << >> THEN 0 ELSE r[Len(r)][1] : r \in { r0 } } : TRUE

\* the runs of r moved d bytes up
RShift(r0, d0) ==
    CHOOSE x \in
        { [i \in 1..Len(r) |-> << r[i][1] + d, r[i][2] >>]
          : r \in { r0 }, d \in { d0 } } : TRUE

\* the run of r that holds the byte at offset off, 0 <= off < len(r)
RIndex(r, off) ==
    CHOOSE i \in 1..Len(r) : r[i][1] > off /\ (i = 1 \/ r[i - 1][1] <= off)

\* append(a, b...): concatenation, merging the two runs that meet
RCat(a0, b0) ==
    CHOOSE x \in
        { IF a = << >> THEN b
          ELSE IF b = << >> THEN a
          ELSE IF a[Len(a)][2] = b[1][2]
               THEN SubSeq(a, 1, Len(a) - 1) \o RShift(b, RLen(a))
               ELSE a \o RShift(b, RLen(a))
          : a \in { a0 }, b \in { b0 } } : TRUE

\* b[:k] (all of b when k >= len(b))
RTake(r0, k0) ==
    CHOOSE x \in
        { IF k <= 0 \/ r = << >> THEN << >>
          ELSE IF k >= RLen(r) THEN r
          ELSE SubSeq(r, 1, RIndex(r, k - 1) - 1)
                 \o << <<k, r[RIndex(r, k - 1)][2]>> >>
          : r \in { r0 }, k \in { k0 } } : TRUE

\* b[k:] (empty when k >= len(b))
RDrop(r0, k0) ==
    CHOOSE x \in
        { IF r = << >> \/ k >= RLen(r) THEN << >>
          ELSE IF k <= 0 THEN r
          ELSE RShift(SubSeq(r, RIndex(r, k), Len(r)), 0 - k)
          : r \in { r0 }, k \in { k0 } } : TRUE

\* b[i:j]
RSlice(r, i, j) == RTake(RDrop(r, i), j - i)

\* the byte string holding the bytes of the sequence s
RFrom(s0) ==
    CHOOSE x \in
        { [j \in 1..Cardinality(E) |->
             << CHOOSE e \in E : Cardinality({ d \in E : d <= e }) = j,
                s0[CHOOSE e \in E : Cardinality({ d \in E : d <= e }) = j] >>]
          : E \in { { i \in 1..Len(s0) : i = Len(s0) \/ s0[i] # s0[i + 1] } } } :
        TRUE

\* the bytes of r, one by one (used on short strings only)
RBytes(r0) ==
    CHOOSE x \in
        { [j \in 1..RLen(r) |-> r[RIndex(r, j - 1)][2]] : r \in { r0 } } : TRUE

\* copy(dst, src): the first min(len(dst), len(src)) bytes of dst replaced
RCopy(dst0, src0) ==
    CHOOSE x \in
        { RCat(RTake(src, Min(RLen(dst), RLen(src))),
               RDrop(dst, Min(RLen(dst), RLen(src))))
          : dst \in { dst0 }, src \in { src0 } } : TRUE

\* ------------------------------------------------------------------------
\* uint32 as <<hi, lo>>, uint16 and int64 fields, big-endian encodings
\* ------------------------------------------------------------------------
U32(n) == << (n \div LIMB) % LIMB, n % LIMB >>

\* the value of u as an integer; defined for u < 2^31
U32Int(u) == u[1] * LIMB + u[2]

\* u + 1 modulo 2^32
U32Inc(u) ==
    IF u[2] + 1 < LIMB THEN << u[1], u[2] + 1 >>
    ELSE << (u[1] + 1) % LIMB, 0 >>

\* a + b modulo 2^32
U32Add(a, b) ==
    LET lo == a[2] + b[2]
    IN  << (a[1] + b[1] + (lo \div LIMB)) % LIMB, lo % LIMB >>

\* u * k modulo 2^32, for a constant 0 <= k < 2^15
U32MulSmall(u, k) ==
    LET lo == u[2] * k
    IN  << (u[1] * k + (lo \div LIMB)) % LIMB, lo % LIMB >>

\* binary.BigEndian.PutUint32
PutUint32(u0) ==
    CHOOSE x \in
        { RFrom(<< u[1] \div 256, u[1] % 256, u[2] \div 256, u[2] % 256 >>)
          : u \in { u0 } } : TRUE

\* binary.BigEndian.Uint32 of the four bytes b
Uint32(b0) ==
    CHOOSE x \in { << b[1] * 256 + b[2], b[3] * 256 + b[4] >> : b \in { b0 } } : TRUE

\* binary.BigEndian.PutUint16
PutUint16(n) == RFrom(<< (n \div 256) % 256, n % 256 >>)

\* binary.BigEndian.PutUint64(uint64(t)) for an int64 t with |t| < 2^31:
\* two's complement, sign-extended to eight bytes
PutUint64(t) ==
    LET s == IF t < 0 THEN 255 ELSE 0
    IN  RCat(RFrom(<< s, s, s, s >>), PutUint32(U32(t)))

\* ------------------------------------------------------------------------
\* Header and Content (store.go, type Header / type Content)
\* ------------------------------------------------------------------------
\* "CHAT"
MAGIC == << 67, 72, 65, 84 >>

\* the zero value of Header, as in &Storage{stdOut: pipe}
ZeroHeader ==
    [Magic |-> << 0, 0, 0, 0 >>, Version |-> U32(0), Record |-> U32(0),
     Count |-> U32(0)]

\* Header{Magic: "CHAT", Version: 1, Record: 0, Count: 0}
FreshHeader ==
    [Magic |-> MAGIC, Version |-> U32(1), Record |-> U32(0), Count |-> U32(0)]

\* a faulty encoder: the numeric fields written little-endian
HeaderBytesLE(h) ==
    LET le(u) == RFrom(<< u[2] % 256, u[2] \div 256, u[1] % 256, u[1] \div 256 >>)
    IN  RCat(RCat(RCopy(RZeros(4), RFrom(h.Magic)), le(h.Version)),
             RCat(le(h.Record), le(h.Count)))

\* the 16 bytes saveHeader builds
HeaderBytes(h) ==
    RCat(RCat(RCopy(RZeros(4), RFrom(h.Magic)), PutUint32(h.Version)),
         RCat(PutUint32(h.Record), PutUint32(h.Count)))

\* the header loadHeader decodes from its 16-byte buffer
HeaderFrom(buf) ==
    CHOOSE x \in
        { [Magic   |-> SubSeq(b, 1, 4),
           Version |-> Uint32(SubSeq(b, 5, 8)),
           Record  |-> Uint32(SubSeq(b, 9, 12)),
           Count   |-> Uint32(SubSeq(b, 13, 16))]
          : b \in { RBytes(buf) } } : TRUE

GetOffset(id) == U32Add(U32(HEADER_SIZE), U32MulSmall(id, CONTENT_SIZE))

GenerateId(h) == U32Inc(h.Count)

\* ------------------------------------------------------------------------
\* The database file chat/chat.db
\* ------------------------------------------------------------------------
NoFile == [exists |-> FALSE, data |-> << >>]

\* file.WriteAt(buf, off): positioned write, zero-filling any gap past EOF
WriteAt(data0, buf0, off0) ==
    CHOOSE x \in
        { IF buf = << >> THEN data
          ELSE IF off > RLen(data)
          THEN RCat(RCat(data, RZeros(off - RLen(data))), buf)
          ELSE RCat(RCat(RTake(data, off), buf), RDrop(data, off + RLen(buf)))
          : data \in { data0 }, buf \in { buf0 }, off \in { off0 } } : TRUE

\* what a reader finds in [off, off + n): the file's bytes, short at EOF
ReadAt(data, off, n) == RSlice(data, off, off + n)

\* how many bytes of the buffer reach the file when a write fails
PartialWrites == { 0, 4 }

\* a faulty loader: the header is read but never copied into s.header
loadHeaderSkip(f, h, fault) ==
    IF ~f.exists \/ fault = "loadOpen" \/ fault = "loadRead"
    THEN [header |-> h, err |-> "IOError"]
    ELSE [header |-> h, err |-> IF RLen(f.data) = 0 THEN "EOF" ELSE "nil"]

loadHeader(f, h, fault) ==
    IF ~f.exists \/ fault = "loadOpen"
    THEN [header |-> h, err |-> "IOError"]
    ELSE IF fault = "loadRead"
    THEN [header |-> h, err |-> "IOError"]
    ELSE IF RLen(f.data) = 0
    THEN [header |-> h, err |-> "EOF"]
    ELSE [header |-> HeaderFrom(RCopy(RZeros(HEADER_SIZE),
                                      RTake(f.data, HEADER_SIZE))),
          err |-> "nil"]

saveHeader(f, h, fault, k) ==
    IF ~f.exists \/ fault = "saveOpen"
    THEN [file |-> f, err |-> "IOError"]
    ELSE IF fault = "saveWrite"
    THEN [file |-> [f EXCEPT !.data = WriteAt(@, RTake(HeaderBytes(h), k), 0)],
          err |-> "IOError"]
    ELSE [file |-> [f EXCEPT !.data = WriteAt(@, HeaderBytes(h), 0)],
          err |-> "nil"]

\* the CONTENT_SIZE-byte buffer Store builds for (id, content)
RecordBytes(id, c) ==
    RCat(RCat(PutUint32(id), RCat(PutUint64(c.CreatedAt), PutUint64(c.UpdatedAt))),
         RCat(PutUint16(c.Length),
              RCopy(RZeros(MAXIMUM_MESSAGE_SIZE), RTake(c.Content, c.Length))))

\* Storage.Get: the stub returns the empty string
Get(id) == << >>

\* Storage.Get has a string as its only result: no error reaches the caller
GetError(id) == "nil"

\* ------------------------------------------------------------------------
\* Storage.Initialize and Storage.Store as functions of the file, the
\* in-memory header and the I/O failure (if any) the call runs into.
\* notes: the status strings handed to `go func() { s.stdOut <- ... }()`
\* failed: the file-system step that failed inside the call ("none" if none)
\* ------------------------------------------------------------------------
Note(text) == [text |-> text, id |-> << >>]

\* fmt.Sprintf("Stored message with ID %d", id)
StoredNote(id) == [text |-> "Stored message with ID ", id |-> id]

Initialize(f, h, fault, k) ==
    IF fault = "mkdir"
    THEN [file |-> f, header |-> h, notes |-> << >>, val |-> U32(0),
          err |-> "IOError", failed |-> "mkdir", panicked |-> FALSE]
    ELSE IF fault = "create"
    THEN [file |-> f, header |-> h,
          notes |-> << Note("Creating database...") >>, val |-> U32(0),
          err |-> "IOError", failed |-> "create", panicked |-> FALSE]
    ELSE IF f.exists
    THEN LET lh == loadHeader(f, h, fault)
         IN  [file |-> f, header |-> lh.header,
              notes |-> << Note("Creating database..."),
                           Note("Database already exists") >>,
              val |-> U32(0), err |-> "nil",
              failed |-> IF lh.err = "nil" THEN "none" ELSE "loadHeader",
              panicked |-> FALSE]
    ELSE LET sh == saveHeader([exists |-> TRUE, data |-> << >>], FreshHeader,
                              fault, k)
         IN  [file |-> sh.file, header |-> FreshHeader,
              notes |-> << Note("Creating database..."),
                           Note("Database created successfully") >>,
              val |-> U32(0), err |-> "nil",
              failed |-> IF sh.err = "nil" THEN "none" ELSE "saveHeader",
              panicked |-> FALSE]

Store(f, h, id0, c, fault, k) ==
    LET id     == IF id0 = U32(0) THEN GenerateId(h) ELSE id0
        offset == U32Int(GetOffset(id))
        buffer == RecordBytes(id, c)
        bumped == [h EXCEPT !.Count = U32Inc(@), !.Record = U32Inc(@)]
    IN  IF ~f.exists \/ fault = "open"
        THEN [file |-> f, header |-> h, notes |-> << >>, val |-> U32(0),
              err |-> "IOError", failed |-> "open", panicked |-> FALSE]
        ELSE IF c.Length > MAXIMUM_MESSAGE_SIZE
        \* content.Content[:content.Length]: slice bounds out of range
        THEN [file |-> f, header |-> h, notes |-> << >>, val |-> U32(0),
              err |-> "panic", failed |-> "none", panicked |-> TRUE]
        ELSE IF fault = "write"
        THEN [file |-> [f EXCEPT !.data = WriteAt(@, RTake(buffer, k), offset)],
              header |-> h, notes |-> << >>, val |-> U32(0),
              err |-> "IOError", failed |-> "write", panicked |-> FALSE]
        ELSE LET f1 == [f EXCEPT !.data = WriteAt(@, buffer, offset)]
                 sh == saveHeader(f1, bumped, fault, k)
             IN  IF id = U32(0)
                 THEN [file |-> sh.file, header |-> bumped,
                       notes |-> << StoredNote(id) >>, val |-> id,
                       err |-> "nil",
                       failed |-> IF sh.err = "nil" THEN "none"
                                  ELSE "saveHeader",
                       panicked |-> FALSE]
                 ELSE [file |-> f1, header |-> h,
                       notes |-> << StoredNote(id) >>, val |-> id,
                       err |-> "nil", failed |-> "none", panicked |-> FALSE]

\* Storage.Check: os.OpenFile(file, os.O_RDONLY, 0644); the *os.File it
\* returns is dropped without a Close
Check(f) ==
    IF f.exists THEN [err |-> "nil", failed |-> "none", opened |-> 1, closed |-> 0]
    ELSE [err |-> "IOError", failed |-> "open", opened |-> 0, closed |-> 0]

\* loadHeader: handles opened, less those its `defer file.Close()` closed
loadHeaderHandles(fault) == IF fault = "loadOpen" THEN 0 ELSE 1 - 1

\* saveHeader: handles opened, less those its `defer file.Close()` closed
saveHeaderHandles(fault) == IF fault = "saveOpen" THEN 0 ELSE 1 - 1

\* Initialize: handles opened, less those closed, when it returns. With the
\* file there already, OpenFile(O_CREATE|O_EXCL) opens nothing
InitializeHandles(f, fault) ==
    IF fault \in { "mkdir", "create" } THEN 0
    ELSE IF f.exists THEN loadHeaderHandles(fault)
    ELSE (1 + saveHeaderHandles(fault)) - 1

\* Store: handles opened, less those closed, when it returns or panics (the
\* deferred Close runs in both cases); saveHeader is called for id = 0 only
StoreHandles(f, h, id0, c, fault) ==
    IF ~f.exists \/ fault = "open" THEN 0
    ELSE IF c.Length > MAXIMUM_MESSAGE_SIZE \/ fault = "write" THEN 1 - 1
    ELSE IF (IF id0 = U32(0) THEN GenerateId(h) ELSE id0) = U32(0)
         THEN (1 + saveHeaderHandles(fault)) - 1
         ELSE 1 - 1

\* ------------------------------------------------------------------------
\* Bounds and inputs of the model
\* ------------------------------------------------------------------------
\* engine calls (Initialize, Store) and restarts made in one behaviour
MaxCalls == 3

\* file-system failures injected in one behaviour
MaxFaults == 1

\* "Hello, world!"
HelloBytes == << 72, 101, 108, 108, 111, 44, 32, 119, 111, 114, 108, 100, 33 >>

\* Length = 13, payload "Hello, world!", the rest of the window zero
cHello ==
    [Id |-> U32(0), CreatedAt |-> 1, UpdatedAt |-> 1, Length |-> 13,
     Content |-> RCopy(RZeros(MAXIMUM_MESSAGE_SIZE), RFrom(HelloBytes))]

\* Length = 2 over a window whose bytes past Length are not zero
cShort ==
    [Id |-> U32(7), CreatedAt |-> 2, UpdatedAt |-> 3, Length |-> 2,
     Content |-> RCopy(RZeros(MAXIMUM_MESSAGE_SIZE), RFrom(HelloBytes))]

\* Length = 5000 > MAXIMUM_MESSAGE_SIZE over a full window of 'a'
cOver ==
    [Id |-> U32(0), CreatedAt |-> 1, UpdatedAt |-> 1, Length |-> 5000,
     Content |-> << <<MAXIMUM_MESSAGE_SIZE, 97>> >>]

Contents == { cHello, cShort, cOver }

NoContent ==
    [Id |-> U32(0), CreatedAt |-> 0, UpdatedAt |-> 0, Length |-> 0,
     Content |-> RZeros(MAXIMUM_MESSAGE_SIZE)]

\* an identifier whose offset 16 + id * 4118 wraps modulo 2^32 to 14
WrapId == U32(979352669)

\* identifiers passed to Store
StoreIds == { U32(0), U32(1), U32(2), WrapId }

InitializeFaults ==
    { "mkdir", "create", "loadOpen", "loadRead", "saveOpen", "saveWrite" }

StoreFaults == { "open", "write", "saveOpen", "saveWrite" }

\* a 16-byte header that is not a store's: "JUNK", Version 9, Record 0, Count 2
JunkFile ==
    [exists |-> TRUE,
     data |-> RFrom(<< 74, 85, 78, 75, 0, 0, 0, 9, 0, 0, 0, 0, 0, 0, 0, 2 >>)]

\* a file cut off after "CHAT" and the version
ShortFile ==
    [exists |-> TRUE, data |-> RFrom(<< 67, 72, 65, 84, 0, 0, 0, 1 >>)]

\* what chat/chat.db may hold when the program starts
InitFiles == { NoFile, JunkFile, ShortFile }

\* ------------------------------------------------------------------------
\* State
\* ------------------------------------------------------------------------
VARIABLES
    file,     \* chat/chat.db: [exists, data]
    header,   \* Storage.header, the in-memory header
    alive,    \* the process is running (FALSE after a panic)
    stdOut,   \* Storage.stdOut: the buffered channel, oldest first
    senders,  \* the bag of goroutines blocked in `s.stdOut <- msg`, by msg
    call,     \* the engine call in progress
    ret,      \* what the last engine call returned, with its arguments
    ncalls,   \* engine calls made so far
    nfaults,  \* file-system failures injected so far
    handles,  \* file handles the process has opened and not closed
    hist,     \* identifiers handed out by Store(0, _) on a fresh store
    phase,    \* the UI program: "start", "built", "run", "quit", "crashed"
    messages, \* model.messages, the transcript
    currentId, \* model.currentId
    cliLoading, \* model.cliLoading
    cliInput, \* the input captured by the running runChatCommand
    waits,    \* waitForPipeMsg commands blocked in `<-pipe`
    inbox,    \* pipeMsg values on their way to Update
    nevents   \* key presses handled so far

\* the state of the UI
ui == << phase, messages, currentId, cliLoading, cliInput, waits, inbox, nevents >>

vars ==
    << file, header, alive, stdOut, senders, call, ret, ncalls,
       nfaults, handles, hist, ui >>

Idle == [op |-> "idle", id |-> U32(0), content |-> NoContent]

NoRet ==
    [op |-> "none", id |-> U32(0), content |-> NoContent, val |-> U32(0),
     err |-> "nil", failed |-> "none", existed |-> FALSE, notes |-> << >>]

\* fresh, ids: the store was created by this session's Initialize, and the
\*   identifiers its Store(0, _) calls have returned since, in call order
\* opened: this session's Initialize has returned, with no failure
\* alloc, old: the identifiers Store(0, _) returned in this session, and in
\*   the earlier sessions on the same file
NoHist ==
    [fresh |-> FALSE, ids |-> << >>, opened |-> FALSE, alloc |-> {}, old |-> {}]

Init ==
    /\ file \in InitFiles
    /\ header = ZeroHeader
    /\ alive = TRUE
    /\ stdOut = << >>
    /\ senders = EmptyBag
    /\ call = Idle
    /\ ret = NoRet
    /\ ncalls = 0
    /\ nfaults = 0
    /\ handles = 0
    /\ hist = NoHist
    /\ phase = "start"
    /\ messages = << >>
    /\ currentId = U32(0)
    /\ cliLoading = FALSE
    /\ cliInput = << >>
    /\ waits = 0
    /\ inbox = << >>
    /\ nevents = 0

\* a faulty notifier: the status strings are sent on the channel by the caller itself
NotifyInline(notes) ==
    /\ Len(stdOut) + Len(notes) <= PIPE_CAP
    /\ stdOut' = stdOut \o notes
    /\ senders' = senders

\* go func() { s.stdOut <- msg }() for each msg of notes, in program order
Notify(notes) ==
    /\ senders' = IF Len(notes) = 0 THEN senders
                  ELSE IF Len(notes) = 1 THEN senders (+) SetToBag({ notes[1] })
                  ELSE senders (+) SetToBag({ notes[1] }) (+) SetToBag({ notes[2] })
    /\ stdOut' = stdOut

\* the failures a call may run into, given what is left of the budget
Faults(S) == IF nfaults < MaxFaults THEN S \cup { "none" } ELSE { "none" }

\* the lengths a failing write may reach
Partial(fault) == IF fault \in { "write", "saveWrite" } THEN PartialWrites ELSE { 0 }

\* Store gets as far as the file-system step `fault` names: the write when
\* the file has opened and the slice has not panicked, saveHeader when the
\* write has been made with id = 0
StoreReaches(f, h, id0, c, fault) ==
    \/ fault \in { "none", "open" }
    \/ /\ f.exists
       /\ c.Length <= MAXIMUM_MESSAGE_SIZE
       /\ \/ fault = "write"
          \/ (IF id0 = U32(0) THEN GenerateId(h) ELSE id0) = U32(0)

\* an injected failure is one the call ran into, and uses up the budget
Charge(fault, out) ==
    /\ fault = "none" \/ out.failed # "none"
    /\ nfaults' = IF fault = "none" THEN nfaults ELSE nfaults + 1

\* the effect of Initialize() returning `out`
InitializeReturns(fault, out) ==
    /\ file' = out.file
    /\ header' = out.header
    /\ Notify(out.notes)
    /\ ret' = [op |-> "Initialize", id |-> U32(0), content |-> NoContent,
               val |-> out.val, err |-> out.err, failed |-> out.failed,
               existed |-> file.exists, notes |-> out.notes]
    /\ hist' = [fresh |-> ~file.exists /\ out.err = "nil" /\ out.failed = "none",
                ids |-> << >>,
                opened |-> out.err = "nil" /\ out.failed = "none",
                alloc |-> IF file.exists THEN hist.alloc ELSE {},
                old |-> IF file.exists THEN hist.old ELSE {}]
    /\ handles' = handles + InitializeHandles(file, fault)
    /\ Charge(fault, out)
    /\ UNCHANGED alive

\* the effect of Store(id, c) returning `out`, or panicking
StoreReturns(id, c, fault, out) ==
    /\ file' = out.file
    /\ header' = out.header
    /\ Notify(out.notes)
    /\ ret' = [op |-> "Store", id |-> id, content |-> c,
               val |-> out.val, err |-> out.err, failed |-> out.failed,
               existed |-> file.exists, notes |-> out.notes]
    /\ alive' = ~out.panicked
    /\ hist' = IF id = U32(0) /\ out.err = "nil"
               THEN IF hist.fresh
                    THEN [hist EXCEPT !.ids = Append(@, out.val),
                                      !.alloc = @ \cup { out.val }]
                    ELSE [hist EXCEPT !.alloc = @ \cup { out.val }]
               ELSE [hist EXCEPT !.fresh = FALSE, !.ids = << >>]
    /\ handles' = handles + StoreHandles(file, header, id, c, fault)
    /\ Charge(fault, out)

\* storage.Initialize(), from the call to its return
InitializeCall ==
    /\ alive /\ call.op = "idle" /\ ncalls < MaxCalls
    /\ \E fault \in Faults(InitializeFaults) : \E k \in Partial(fault) :
          \E out \in { Initialize(file, header, fault, k) } :
             InitializeReturns(fault, out)
    /\ ncalls' = ncalls + 1
    /\ UNCHANGED << call, ui >>

\* storage.Store(id, c), from the call to its return or panic
StoreCall ==
    /\ alive /\ call.op = "idle" /\ ncalls < MaxCalls
    /\ \E id \in StoreIds, c \in Contents :
          \E fault \in Faults(StoreFaults) : \E k \in Partial(fault) :
             /\ StoreReaches(file, header, id, c, fault)
             /\ \E out \in { Store(file, header, id, c, fault, k) } :
                   StoreReturns(id, c, fault, out)
    /\ ncalls' = ncalls + 1
    /\ UNCHANGED << call, ui >>

\* a new process: a new Storage with a zero header and a new channel, and no
\* handle of the old process; the file stays as it is
NewProcess ==
    /\ header' = ZeroHeader
    /\ alive' = TRUE
    /\ stdOut' = << >>
    /\ senders' = EmptyBag
    /\ ret' = NoRet
    /\ hist' = [NoHist EXCEPT !.old = hist.old \cup hist.alloc]
    /\ handles' = 0
    /\ UNCHANGED << file, call, nfaults, ui >>

\* the process ends (or has panicked) and is started again
Restart ==
    /\ call.op = "idle"
    /\ ncalls < MaxCalls
    /\ ret.op # "none"
    /\ NewProcess
    /\ ncalls' = ncalls + 1

\* storage.Check(), from the call to its return
CheckCall ==
    /\ alive /\ call.op = "idle" /\ ncalls < MaxCalls
    /\ \E out \in { Check(file) } :
          /\ ret' = [op |-> "Check", id |-> U32(0), content |-> NoContent,
                     val |-> U32(0), err |-> out.err, failed |-> out.failed,
                     existed |-> file.exists, notes |-> << >>]
          /\ handles' = (handles + out.opened) - out.closed
    /\ ncalls' = ncalls + 1
    /\ UNCHANGED << file, header, alive, stdOut, senders, call, nfaults, hist, ui >>

Next ==
    \/ InitializeCall
    \/ StoreCall
    \/ CheckCall
    \/ Restart

Spec == Init /\ [][Next]_vars

\* ------------------------------------------------------------------------
\* Sessions on one file: the program is started, initializes the store,
\* saves new conversations (Store with identifier 0), ends and is started
\* again. No file-system failure.
\* ------------------------------------------------------------------------
\* engine calls and restarts made in one behaviour of SessionSpec
MaxSessionCalls == 5

SessionInit == Init /\ file = NoFile

SessionInitialize ==
    /\ alive /\ call.op = "idle" /\ ncalls < MaxSessionCalls
    /\ \E out \in { Initialize(file, header, "none", 0) } :
          InitializeReturns("none", out)
    /\ ncalls' = ncalls + 1
    /\ UNCHANGED << call, ui >>

SessionStore ==
    /\ alive /\ call.op = "idle" /\ ncalls < MaxSessionCalls
    /\ \E c \in { cHello, cShort } :
          \E out \in { Store(file, header, U32(0), c, "none", 0) } :
             StoreReturns(U32(0), c, "none", out)
    /\ ncalls' = ncalls + 1
    /\ UNCHANGED << call, ui >>

SessionRestart ==
    /\ call.op = "idle"
    /\ ncalls < MaxSessionCalls
    /\ ret.op # "none"
    /\ NewProcess
    /\ ncalls' = ncalls + 1

SessionNext ==
    \/ SessionInitialize
    \/ SessionStore
    \/ SessionRestart

SessionSpec == SessionInit /\ [][SessionNext]_vars

\* ------------------------------------------------------------------------
\* The notification path: the program's calls (Initialize once at start-up,
\* then Store on every save) with the call in progress made visible, the
\* sending goroutines and the consumer of the channel.
\* ------------------------------------------------------------------------
\* engine calls made in one behaviour of PipeSpec
MaxPipeCalls == 11

PipeIds == { U32(0), U32(1) }

PipeInit == Init /\ file = NoFile

\* initialModel calls storage.Initialize()
BeginInitialize ==
    /\ alive /\ call.op = "idle" /\ ncalls = 0
    /\ call' = [Idle EXCEPT !.op = "Initialize"]
    /\ ncalls' = ncalls + 1
    /\ UNCHANGED << file, header, alive, stdOut, senders, ret, nfaults, handles, hist, ui >>

\* a save calls storage.Store(id, content)
BeginStore ==
    /\ alive /\ call.op = "idle" /\ ncalls > 0 /\ ncalls < MaxPipeCalls
    /\ \E id \in PipeIds : call' = [op |-> "Store", id |-> id, content |-> cHello]
    /\ ncalls' = ncalls + 1
    /\ UNCHANGED << file, header, alive, stdOut, senders, ret, nfaults, handles, hist, ui >>

\* Initialize runs to its return
EndInitialize ==
    /\ call.op = "Initialize"
    /\ \E out \in { Initialize(file, header, "none", 0) } :
          InitializeReturns("none", out)
    /\ call' = Idle
    /\ UNCHANGED << ncalls, ui >>

\* Store runs to its return
EndStore ==
    /\ call.op = "Store"
    /\ \E out \in { Store(file, header, call.id, call.content, "none", 0) } :
          StoreReturns(call.id, call.content, "none", out)
    /\ call' = Idle
    /\ UNCHANGED << ncalls, ui >>

\* a notification goroutine completes its send once the channel has room
GoSend ==
    /\ alive
    /\ Len(stdOut) < PIPE_CAP
    /\ \E msg \in BagToSet(senders) :
          /\ stdOut' = Append(stdOut, msg)
          /\ senders' = senders (-) SetToBag({ msg })
    /\ UNCHANGED << file, header, alive, call, ret, ncalls, nfaults, handles, hist, ui >>

\* the consumer takes the oldest status string off the channel
Recv ==
    /\ alive
    /\ stdOut # << >>
    /\ stdOut' = Tail(stdOut)
    /\ UNCHANGED << file, header, alive, senders, call, ret, ncalls, nfaults, handles, hist, ui >>

PipeNext ==
    \/ BeginInitialize
    \/ BeginStore
    \/ EndInitialize
    \/ EndStore
    \/ GoSend
    \/ Recv

\* nothing obliges the consumer to receive, nor any sender to be scheduled
PipeSpec == PipeInit /\ [][PipeNext]_vars

\* ------------------------------------------------------------------------
\* The UI program: initialModel, model.Init, model.Update and the commands
\* it starts
\* ------------------------------------------------------------------------
\* key presses (Ctrl+S, Enter, Ctrl+C) handled in one behaviour of UISpec
MaxEvents == 2

\* what the user may have typed when Enter is pressed (CharLimit is 2000)
UserInputs == { RFrom(<< 104, 105 >>), << <<2000, 97>> >> }

\* a reading of time.Now().Unix(); the second reading of one save is the
\* same second or the next
Times == { 1700000000 }

\* the bytes of a status string's fixed text
TextBytes(text) ==
    CASE text = "Creating database..." ->
           << 67, 114, 101, 97, 116, 105, 110, 103, 32, 100, 97, 116, 97, 98,
              97, 115, 101, 46, 46, 46 >>
      [] text = "Database already exists" ->
           << 68, 97, 116, 97, 98, 97, 115, 101, 32, 97, 108, 114, 101, 97,
              100, 121, 32, 101, 120, 105, 115, 116, 115 >>
      [] text = "Database created successfully" ->
           << 68, 97, 116, 97, 98, 97, 115, 101, 32, 99, 114, 101, 97, 116,
              101, 100, 32, 115, 117, 99, 99, 101, 115, 115, 102, 117, 108,
              108, 121 >>
      [] text = "Stored message with ID " ->
           << 83, 116, 111, 114, 101, 100, 32, 109, 101, 115, 115, 97, 103,
              101, 32, 119, 105, 116, 104, 32, 73, 68, 32 >>

RECURSIVE Decimal(_)
\* the decimal digits %d prints for the uint32 u
Decimal(u0) ==
    CHOOSE x \in
        { LET q1 == u[1] \div 10
              t  == (u[1] % 10) * LIMB + u[2]
              q  == << q1, t \div 10 >>
              d  == << 48 + (t % 10) >>
          IN  IF q = << 0, 0 >> THEN d ELSE Decimal(q) \o d
          : u \in { u0 } } : TRUE

\* the fixed texts of the status strings, as byte strings
NoteTexts ==
    [text \in { "Creating database...", "Database already exists",
                "Database created successfully", "Stored message with ID " }
       |-> RFrom(TextBytes(text))]

\* the bytes of a status string
NoteBytes(note) ==
    IF note.id = << >> THEN NoteTexts[note.text]
    ELSE RCat(NoteTexts[note.text], RFrom(Decimal(note.id)))

\* lipgloss Style.Render with Foreground(Color(colour)) on a 256-colour
\* terminal: ESC[38;5;<colour>m text ESC[0m
Render(colour, text) ==
    RCat(RCat(RFrom(<< 27, 91, 51, 56, 59, 53, 59 >> \o colour \o << 109 >>),
              RFrom(text)),
         RFrom(<< 27, 91, 48, 109 >>))

\* messageStyle.Render("User : "), .Render("System : "), botMessageStyle.Render("Bot : ")
UserPrefix == Render(<< 50, 48, 53 >>, << 85, 115, 101, 114, 32, 58, 32 >>)

SystemPrefix == Render(<< 50, 48, 53 >>, << 83, 121, 115, 116, 101, 109, 32, 58, 32 >>)

BotPrefix == Render(<< 56, 54 >>, << 66, 111, 116, 32, 58, 32 >>)

\* what `echo "Simulated AI Response to: "+input` prints
CliResponse(input) ==
    RCat(RCat(RFrom(<< 83, 105, 109, 117, 108, 97, 116, 101, 100, 32, 65, 73,
                       32, 82, 101, 115, 112, 111, 110, 115, 101, 32, 116,
                       111, 58, 32 >>),
              input),
         RFrom(<< 10 >>))

RECURSIVE Transcript(_)
\* the strings.Builder of messagesToContent: every message followed by "\n"
Transcript(msgs0) ==
    CHOOSE x \in
        { IF msgs = << >> THEN << >>
          ELSE RCat(RCat(msgs[1], RFrom(<< 10 >>)), Transcript(Tail(msgs)))
          : msgs \in { msgs0 } } : TRUE

messagesToContent(msgs, t1, t2) ==
    CHOOSE x \in
        { [Id |-> U32(0), CreatedAt |-> t1, UpdatedAt |-> t2,
           Length |-> RLen(text) % LIMB,
           Content |-> RCopy(RZeros(MAXIMUM_MESSAGE_SIZE), text)]
          : text \in { Transcript(msgs) } } : TRUE

UIInit == Init /\ file = NoFile

\* initialModel: the channel is made, storage.Initialize() is called (its
\* error is printed, not acted on) and the model is built
initialModel ==
    /\ phase = "start" /\ alive
    /\ \E out \in { Initialize(file, header, "none", 0) } :
          InitializeReturns("none", out)
    /\ ncalls' = ncalls + 1
    /\ phase' = "built"
    /\ UNCHANGED << call, messages, currentId, cliLoading, cliInput, waits,
                    inbox, nevents >>

\* model.Init: tea.Batch(textarea.Blink, waitForPipeMsg(m.pipe))
modelInit ==
    /\ phase = "built"
    /\ phase' = "run"
    /\ waits' = waits + 1
    /\ UNCHANGED << file, header, alive, stdOut, senders, call, ret, ncalls,
                    nfaults, handles, hist, messages, currentId, cliLoading, cliInput,
                    inbox, nevents >>

\* the function waitForPipeMsg returned: msg, ok := <-pipe; pipeMsg(msg)
waitForPipeMsg ==
    /\ phase = "run" /\ waits > 0 /\ stdOut # << >>
    /\ inbox' = Append(inbox, Head(stdOut))
    /\ stdOut' = Tail(stdOut)
    /\ waits' = waits - 1
    /\ UNCHANGED << file, header, alive, senders, call, ret, ncalls, nfaults, handles,
                    hist, phase, messages, currentId, cliLoading, cliInput,
                    nevents >>

\* a faulty handler: the case pipeMsg returns no new waitForPipeMsg command
UpdatePipeMsgNoWait ==
    /\ phase = "run" /\ inbox # << >>
    /\ messages' = messages \o
                     << RCat(SystemPrefix, NoteBytes(Head(inbox))), << >> >>
    /\ inbox' = Tail(inbox)
    /\ UNCHANGED << file, header, alive, stdOut, senders, call, ret, ncalls,
                    nfaults, handles, hist, phase, currentId, cliLoading,
                    cliInput, waits, nevents >>

\* Update, case pipeMsg
UpdatePipeMsg ==
    /\ phase = "run" /\ inbox # << >>
    /\ messages' = messages \o
                     << RCat(SystemPrefix, NoteBytes(Head(inbox))), << >> >>
    /\ inbox' = Tail(inbox)
    /\ waits' = waits + 1
    /\ UNCHANGED << file, header, alive, stdOut, senders, call, ret, ncalls,
                    nfaults, handles, hist, phase, currentId, cliLoading, cliInput,
                    nevents >>

\* Update, case tea.KeyCtrlS: saveChatHistoryToFile and m.currentId = id
UpdateCtrlS ==
    /\ phase = "run" /\ nevents < MaxEvents
    /\ \E t1 \in Times : \E t2 \in { t1, t1 + 1 } :
          \E c \in { messagesToContent(messages, t1, t2) } :
             \E fault \in Faults(StoreFaults) : \E k \in Partial(fault) :
                /\ StoreReaches(file, header, currentId, c, fault)
                /\ \E out \in { Store(file, header, currentId, c, fault, k) } :
                      /\ StoreReturns(currentId, c, fault, out)
                      \* a panic unwinds Update before m.currentId = id
                      /\ currentId' = IF out.panicked THEN currentId ELSE out.val
                      /\ phase' = IF out.panicked THEN "crashed" ELSE phase
    /\ ncalls' = ncalls + 1
    /\ nevents' = nevents + 1
    /\ UNCHANGED << call, messages, cliLoading, cliInput, waits, inbox >>

\* Update, case tea.KeyEnter with a non-empty input and no command running
UpdateEnter ==
    /\ phase = "run" /\ nevents < MaxEvents
    /\ ~cliLoading
    /\ \E input \in UserInputs :
          /\ messages' = Append(messages, RCat(UserPrefix, input))
          /\ cliInput' = input
    /\ cliLoading' = TRUE
    /\ nevents' = nevents + 1
    /\ UNCHANGED << file, header, alive, stdOut, senders, call, ret, ncalls,
                    nfaults, handles, hist, phase, currentId, waits, inbox >>

\* Update, case cliResponseMsg: the command started by Enter has returned
UpdateCliResponse ==
    /\ phase = "run" /\ cliLoading
    /\ messages' = messages \o
                     << RCat(BotPrefix, CliResponse(cliInput)), << >> >>
    /\ cliLoading' = FALSE
    /\ cliInput' = << >>
    /\ UNCHANGED << file, header, alive, stdOut, senders, call, ret, ncalls,
                    nfaults, handles, hist, phase, currentId, waits, inbox, nevents >>

\* Update, case tea.KeyCtrlC, tea.KeyEsc: tea.Quit ends the program
UpdateQuit ==
    /\ phase = "run" /\ nevents < MaxEvents
    /\ phase' = "quit"
    /\ alive' = FALSE
    /\ nevents' = nevents + 1
    /\ UNCHANGED << file, header, stdOut, senders, call, ret, ncalls, nfaults, handles,
                    hist, messages, currentId, cliLoading, cliInput, waits,
                    inbox >>

\* the program is run again: nothing of the old process is left but the file
UIStart ==
    /\ phase \in { "quit", "crashed" }
    /\ phase' = "start"
    /\ alive' = TRUE
    /\ header' = ZeroHeader
    /\ stdOut' = << >>
    /\ senders' = EmptyBag
    /\ ret' = NoRet
    /\ hist' = [NoHist EXCEPT !.old = hist.old \cup hist.alloc]
    /\ messages' = << >>
    /\ currentId' = U32(0)
    /\ cliLoading' = FALSE
    /\ cliInput' = << >>
    /\ waits' = 0
    /\ inbox' = << >>
    /\ handles' = 0
    /\ UNCHANGED << file, call, ncalls, nfaults, nevents >>

UINext ==
    \/ initialModel
    \/ modelInit
    \/ waitForPipeMsg
    \/ UpdatePipeMsg
    \/ UpdateCtrlS
    \/ UpdateEnter
    \/ UpdateCliResponse
    \/ UpdateQuit
    \/ UIStart
    \/ GoSend

UISpec == UIInit /\ [][UINext]_vars

\* key presses handled in one behaviour of UILive
MaxLiveEvents == 1

UILiveNext ==
    \/ initialModel
    \/ modelInit
    \/ waitForPipeMsg
    \/ UpdatePipeMsg
    \/ (nevents < MaxLiveEvents /\ UpdateCtrlS)
    \/ (nevents < MaxLiveEvents /\ UpdateEnter)
    \/ UpdateCliResponse
    \/ (nevents < MaxLiveEvents /\ UpdateQuit)
    \/ UIStart
    \/ GoSend

\* The UI program under fair scheduling: the Go scheduler runs every
\* goroutine that can run (the notification senders, the waitForPipeMsg
\* command), and the bubbletea event loop starts the program and hands every
\* message a command returned to Update. Nothing obliges the user to press a
\* key, nor the echo command to return.
UILive ==
    /\ UIInit
    /\ [][UILiveNext]_vars
    /\ WF_vars(initialModel)
    /\ WF_vars(modelInit)
    /\ WF_vars(GoSend)
    /\ WF_vars(waitForPipeMsg)
    /\ WF_vars(UpdatePipeMsg)

\* ------------------------------------------------------------------------
\* Properties
\* ------------------------------------------------------------------------
\* the first HEADER_SIZE bytes of the file: the persisted header
DiskHeader(f) == RTake(f.data, HEADER_SIZE)

\* the CONTENT_SIZE bytes of record slot n, n a small integer; bytes past the
\* end of the file read as the zeros a sparse write would leave there
Slot(f, n) ==
    RCopy(RZeros(CONTENT_SIZE),
          ReadAt(f.data, HEADER_SIZE + n * CONTENT_SIZE, CONTENT_SIZE))

\* the file holds a whole header that carries the magic tag
ValidStore(f) == RLen(f.data) >= HEADER_SIZE /\ RTake(f.data, 4) = RFrom(MAGIC)

\* this step is a call of Store that returned or panicked
StoreStep == ncalls' = ncalls + 1 /\ ret'.op = "Store"

\* this step is a call of Initialize that returned
InitializeStep == ncalls' = ncalls + 1 /\ ret'.op = "Initialize"

\* the status string is with a sending goroutine or in the channel
HasNote(text) ==
    \/ BagIn(Note(text), senders)
    \/ \E i \in 1..Len(stdOut) : stdOut[i] = Note(text)

\* C1: on a freshly initialized store, the N-th of N sequential Store(0, c)
\* calls returns N, and afterwards Count = Record = N in the in-memory header
\* and in the header at file offset 0.
C1_AllocationMonotonic ==
    hist.fresh =>
        LET N == Len(hist.ids)
        IN  /\ \A i \in 1..N : hist.ids[i] = U32(i)
            /\ header.Count = U32(N)
            /\ header.Record = U32(N)
            /\ DiskHeader(file) =
                 HeaderBytes([FreshHeader EXCEPT !.Count = U32(N), !.Record = U32(N)])

\* C2: on a file that holds a valid header, a successful Store(id, c) with
\* id # 0 and a valid c leaves the slot at offset(id) equal to the encoding of
\* c (nothing of what was there before), leaves the header unchanged in memory
\* and on disk, and leaves the bytes of every other record slot unchanged.
C2_OverwriteFrame ==
    [][ (StoreStep /\ ret'.id # U32(0) /\ ret'.err = "nil"
           /\ ret'.content.Length <= MAXIMUM_MESSAGE_SIZE
           /\ ValidStore(file))
        => /\ ReadAt(file'.data, U32Int(GetOffset(ret'.id)), CONTENT_SIZE)
                = RecordBytes(ret'.id, ret'.content)
           /\ header' = header
           /\ DiskHeader(file') = DiskHeader(file)
           /\ \A n \in 1..2 : U32(n) # ret'.id => Slot(file', n) = Slot(file, n)
      ]_vars

\* C3: Store(id, content) with content.Length > 4096, on a file that opens,
\* returns a ValidationError and leaves the file and the in-memory header
\* unchanged.
C3_OversizeRejected ==
    [][ (StoreStep /\ ret'.content.Length > MAXIMUM_MESSAGE_SIZE
           /\ ret'.failed = "none")
        => /\ ret'.err = "ValidationError"
           /\ file' = file
           /\ header' = header
      ]_vars

\* C4: the Content a save hands to Store has Length <= 4096, and Length is
\* the number of transcript bytes copied into the payload window.
C4_SavedLengthFits ==
    [][ (StoreStep /\ phase = "run")
        => /\ ret'.content.Length <= MAXIMUM_MESSAGE_SIZE
           /\ ret'.content.Length
                = Min(RLen(Transcript(messages)), MAXIMUM_MESSAGE_SIZE)
      ]_vars

\* C5: a call of Initialize or of Store in progress can always run to its
\* return, whatever the senders and the consumer of the notification channel
\* have done, also when the channel is full and is not being drained.
C5_CallsReturn ==
    /\ call.op = "Initialize" => ENABLED EndInitialize
    /\ call.op = "Store" => ENABLED EndStore

\* Store has returned with the channel full and senders blocked before it
C5_Witness ==
    /\ ret.op = "Store" /\ ret.err = "nil" /\ call.op = "idle"
    /\ Len(stdOut) = PIPE_CAP
    /\ BagCardinality(senders) >= 2

\* C6: when the file does not exist, an Initialize that succeeds (it returns
\* no error and ran into no file-system failure) creates it, leaves "CHAT",
\* Version 1, Record 0, Count 0 in the header on disk and in memory, and
\* emits "Database created successfully".
C6_FreshInitialize ==
    (ret.op = "Initialize" /\ ~ret.existed /\ ret.err = "nil" /\ ret.failed = "none")
    => /\ file.exists
       /\ DiskHeader(file) =
            RFrom(<< 67, 72, 65, 84, 0, 0, 0, 1, 0, 0, 0, 0, 0, 0, 0, 0 >>)
       /\ header = [Magic |-> << 67, 72, 65, 84 >>, Version |-> << 0, 1 >>,
                    Record |-> << 0, 0 >>, Count |-> << 0, 0 >>]
       /\ HasNote("Database created successfully")

C6_Witness ==
    ret.op = "Initialize" /\ ~ret.existed /\ ret.err = "nil" /\ ret.failed = "none"

\* C7: Initialize on a store that already exists (a file holding a whole
\* header), with no file-system failure, returns no error, emits "Database
\* already exists" and not "Database created successfully", leaves the file as
\* it was, and leaves the in-memory header equal to the header on disk.
C7_IdempotentReopen ==
    [][ (InitializeStep /\ file.exists /\ RLen(file.data) >= HEADER_SIZE
           /\ ret'.failed = "none")
        => /\ ret'.err = "nil"
           /\ ret'.notes = << Note("Creating database..."),
                              Note("Database already exists") >>
           /\ file' = file
           /\ HeaderBytes(header') = DiskHeader(file')
      ]_vars

\* a second Initialize, after a restart, on the store the first one created
C7_Witness ==
    /\ ret.op = "Initialize" /\ ret.existed /\ ret.failed = "none"
    /\ ncalls = 3
    /\ DiskHeader(file) = HeaderBytes(FreshHeader)
    /\ header = FreshHeader

\* C8: when the header of the existing file does not validate (fewer than 16
\* bytes, or Magic # "CHAT"), Initialize returns a FormatError, and Store is
\* never served with an in-memory header that did not validate.
C8_InvalidHeaderIsFatal ==
    /\ (ret.op = "Initialize" /\ ret.existed /\ ret.failed = "none"
          /\ (RLen(file.data) < HEADER_SIZE
                \/ RTake(file.data, 4) # RFrom(MAGIC)))
       => ret.err = "FormatError"
    /\ (ret.op = "Store" /\ ret.err = "nil") => header.Magic = MAGIC

\* C9: a file-system failure inside Initialize or Store is returned as an
\* error by that same call.
C9_ErrorsReturned ==
    ret.failed # "none" => ret.err # "nil"

\* C10: after a fresh Initialize, the first Store(0, c) returns 1, and Get of
\* the identifier it returned yields c's payload: the first c.Length bytes of
\* the record read back are the bytes stored.
C10_ReadAfterWrite ==
    (hist.fresh /\ Len(hist.ids) = 1 /\ ret.op = "Store")
    => /\ ret.val = U32(1)
       /\ RTake(Get(ret.val), ret.content.Length)
            = RTake(ret.content.Content, ret.content.Length)

\* C11: on a store that holds a valid header, Get(99), whose offset lies
\* beyond the end of the file, reports NotFoundError and returns no data.
C11_GetNotFound ==
    (ret.op = "Store" /\ ret.err = "nil" /\ ValidStore(file)
       /\ U32Int(GetOffset(U32(99))) >= RLen(file.data))
    => /\ GetError(99) = "NotFoundError"
       /\ Get(99) = << >>

\* C12: for every identifier id passed to Store, GetOffset(id) is the number
\* HEADER_SIZE + id * CONTENT_SIZE: it lies at or past the end of the header,
\* on a slot boundary, and the slot it names is slot id.
C12_OffsetNoWrap ==
    ret.op = "Store"
    => LET off == U32Int(GetOffset(ret.id))
       IN  /\ off >= HEADER_SIZE
           /\ (off - HEADER_SIZE) % CONTENT_SIZE = 0
           /\ (off - HEADER_SIZE) \div CONTENT_SIZE = U32Int(ret.id)

\* C13: a Store that returns no error has written its record to a slot
\* n >= 1 and has left slot 0 as it was, and the first four bytes of the
\* record on disk are the identifier of that slot, whatever the Id field of
\* the Content passed in.
C13_SlotZeroNeverWritten ==
    [][ (StoreStep /\ ret'.err = "nil")
        => LET off == U32Int(GetOffset(ret'.val))
           IN  /\ ret'.val # U32(0)
               /\ Slot(file', 0) = Slot(file, 0)
               /\ off >= HEADER_SIZE + CONTENT_SIZE
               /\ (off - HEADER_SIZE) \div CONTENT_SIZE = U32Int(ret'.val)
               /\ RTake(ReadAt(file'.data, off, CONTENT_SIZE), 4)
                    = PutUint32(ret'.val)
      ]_vars

\* C14: between calls the engine holds no open file handle: when Check,
\* Initialize or Store has returned, every handle the call opened is closed.
C14_NoOpenHandles ==
    call.op = "idle" => handles = 0

\* the status strings the engine can emit in a session of the UI
LiveNotes ==
    { Note("Creating database..."), Note("Database created successfully"),
      Note("Database already exists"), StoredNote(U32(1)) }

\* the status string is on its way: with a sender, in the channel, or
\* received and not yet handled by Update
Pending(n) ==
    \/ BagIn(n, senders)
    \/ \E i \in 1..Len(stdOut) : stdOut[i] = n
    \/ \E i \in 1..Len(inbox) : inbox[i] = n

\* Update, case pipeMsg: the System message made of each status string
SystemMessages == [n \in LiveNotes |-> RCat(SystemPrefix, NoteBytes(n))]

\* the transcript holds the status string as a System message
Shown(n) == \E i \in 1..Len(messages) : messages[i] = SystemMessages[n]

\* status strings on their way, and System messages in the transcript
InFlight == BagCardinality(senders) + Len(stdOut) + Len(inbox)

SystemCount ==
    Cardinality({ i \in 1..Len(messages) :
                    RTake(messages[i], RLen(SystemPrefix)) = SystemPrefix })

\* C15: while the UI runs, exactly one wait on the channel is outstanding or
\* its message is on the way to Update; no status string is lost or made up
\* on the way to the transcript; and under fair scheduling every status
\* string emitted is in the end shown as a System message, with no sender
\* left blocked, unless the program has ended before.
C15_WaitReissued ==
    /\ [](phase = "run" => (waits <= 1 /\ waits + Len(inbox) = 1))
    /\ [][ phase' # "start"
            => InFlight' + SystemCount'
                 = InFlight + SystemCount
                   + (IF ncalls' = ncalls + 1 THEN Len(ret'.notes) ELSE 0) ]_vars
    /\ \A n \in LiveNotes :
          Pending(n) ~> (Shown(n) \/ phase \in { "quit", "crashed" })
    /\ (InFlight > 0) ~> (InFlight = 0 \/ phase \in { "quit", "crashed" })

\* the note of a save has gone from its sender through the channel into the
\* transcript, and a new wait is outstanding
C15_Witness ==
    /\ phase = "run" /\ waits = 1 /\ InFlight = 0
    /\ Shown(StoredNote(U32(1)))
    /\ Shown(Note("Database created successfully"))

\* C16: within one session of the UI, once a save has set currentId to an
\* identifier other than 0, currentId never changes again, whether later
\* saves succeed or fail.
C16_CurrentIdStable ==
    [][ (phase = "run" /\ currentId # U32(0) /\ phase' = "run")
        => currentId' = currentId ]_vars

\* C17: in a session that has initialized the store, an identifier returned
\* by Store(0, _) is greater than every identifier Store(0, _) returned in
\* the earlier sessions on the same file.
C17_AllocationSurvivesRestart ==
    (hist.opened /\ ret.op = "Store" /\ ret.id = U32(0) /\ ret.err = "nil")
    => \A o \in hist.old : U32Int(ret.val) > U32Int(o)

\* C18: once Initialize has returned with no error (and no failure behind
\* it) on a file that holds a store's header, and after any Store calls that
\* follow, failed ones included, the in-memory header equals the 16 bytes at
\* offset 0 of the file.
C18_HeaderCoherent ==
    (hist.opened /\ ValidStore(file))
    => HeaderBytes(header) = DiskHeader(file)

\* C19: the status strings enter the channel in the order the engine emitted
\* them: the closing string of an Initialize call ("Database created
\* successfully" or "Database already exists") is never in the channel while
\* that call's "Creating database..." is still with its sender.
C19_NotificationOrder ==
    \A i \in 1..Len(stdOut) :
        stdOut[i] \in { Note("Database created successfully"),
                        Note("Database already exists") }
        => ~BagIn(Note("Creating database..."), senders)

=============================================================================
